---- MODULE Spec2Model ----
(***************************************************************************)
(* A model of kodama's compilation core, src/compiler/state.rs:            *)
(* CompileState with its pending table (residued), compiled table,         *)
(* metadata snapshot and relationship accumulator (callback), and the      *)
(* mutually recursive fetch_section / compile_shallow driven by            *)
(* compile_all.  The recursion is modelled by an explicit call stack of    *)
(* compile_shallow activations.                                            *)
(***************************************************************************)
EXTENDS Integers, Sequences, FiniteSets, TLC

VARIABLES
    residued,   \* CompileState.residued : slug -> ShallowSection (pending)
    compiled,   \* CompileState.compiled : slug -> Section
    metadata,   \* CompileState.metadata : slug -> HTMLMetaData (snapshot)
    callback,   \* CompileState.callback : the global relationship accumulator
    stack,      \* the activations of compile_shallow, innermost last
    pc,         \* position of compile_all: start, root, collect, sweep, done, panic
    sweep,      \* residued_slugs, the part of the sweep list still to visit
    diag,       \* the lines written by eprintln!, as <<referrer, target>>
    ret,        \* what the last fetch_section returned: None or Some(section)
    entered,    \* the slugs compile_shallow was entered with, in call order
    initial,    \* the pending table as it was when compile_all was called
    first       \* per key of compiled, the section first stored under it

vars == <<residued, compiled, metadata, callback, stack, pc, sweep, diag, ret,
          entered, initial, first>>

-----------------------------------------------------------------------------
(* Bounds of the model.                                                    *)

\* The number of content items (and metadata fields) of a whole site.
MaxItems == 3

-----------------------------------------------------------------------------
(* Values.                                                                 *)

None == <<>>
Some(v) == <<v>>

EmptyMap == [k \in {} |-> {}]

KEY_SLUG == "slug"

\* format!("{}:metadata", slug)
MetadataSlug(slug) == slug \o ":metadata"

\* HTMLContent
PlainContent(html) == [kind |-> "Plain", html |-> html]
LazyContent(items) == [kind |-> "Lazy", items |-> items]

\* LazyContent::{Plain, Embed, Local}
PlainItem(html) == [kind |-> "Plain", html |-> html]
EmbedItem(url, open, title) ==
    [kind |-> "Embed", url |-> url, option |-> [details_open |-> open], title |-> title]
LocalItem(slug, text) == [kind |-> "Local", slug |-> slug, text |-> text]

\* SectionContent::{Plain, Embed}
PlainPiece(html) == [kind |-> "Plain", html |-> html]
EmbedPiece(section) == [kind |-> "Embed", section |-> section]

\* SectionOption::default()
DefaultOption == [details_open |-> TRUE]

\* Section::new(metadata, children, references)
NewSection(md, children, references) ==
    [metadata |-> md, children |-> children, references |-> references,
     option |-> DefaultOption]

\* EntryMetaData::update(key, value)
Update(md, key, value) == [k \in DOMAIN md \cup {key} |-> IF k = key THEN value ELSE md[k]]

\* ShallowSection::slug(): the identity field of the metadata
SlugOf(shallow) == shallow.metadata[KEY_SLUG].html

\* slug::to_slug(url): drops the extension of a url
to_slug(url) ==
    CASE url = "index.md" -> "index"
      [] url = "a.md" -> "a"
      [] url = "b.md" -> "b"
      [] OTHER -> url

\* config::full_html_url(slug)
full_html_url(slug) == "/" \o slug \o ".html"

\* recorder::State::LocalLink.strify()
LocalLinkClass == "local"

\* html_flake::html_link(href, title, text, class)
html_link(href, title, text, class) ==
    "<a class='" \o class \o "' href='" \o href \o "' title='" \o title \o "'>"
        \o text \o "</a>"

\* Section::spanned(): the inline rendering of a section's content
RECURSIVE SpannedFrom(_, _)
SpannedFrom(children, i) ==
    IF i > Len(children) THEN ""
    ELSE (IF children[i].kind = "Plain" THEN children[i].html
          ELSE "<section " \o children[i].section.metadata[KEY_SLUG] \o ">")
         \o SpannedFrom(children, i + 1)

Spanned(section) == "<span>" \o SpannedFrom(section.children, 1) \o "</span>"

\* HTMLMetaData accessors, over the snapshot of one document's metadata
PlainField(md, key) ==
    IF key \in DOMAIN md /\ md[key].kind = "Plain" THEN Some(md[key].html) ELSE None

page_title(md) == PlainField(md, "title")
md_is_enable_backlinks(md) == PlainField(md, "backlinks") # Some("false")
is_asref(md) == PlainField(md, "asref") = Some("true")
data_taxon(md) == PlainField(md, "taxon")

\* Taxon::is_reference(taxon)
TaxonIsReference(taxon) == taxon = "reference"

\* HTMLMetaData::compute_textual_attrs followed by clone(): the snapshot entry
compute_textual_attrs(md) == md

\* Callback: parent edges <<child, parent>> and backlink edges <<target, source>>
NewCallback == [parents |-> {}, backlinks |-> {}]
insert_parent(cb, child, parent) ==
    [cb EXCEPT !.parents = @ \cup {<<child, parent>>}]
insert_backlinks(cb, target, sources) ==
    [cb EXCEPT !.backlinks = @ \cup {<<target, s>> : s \in sources}]
merge(cb, other) ==
    [parents |-> cb.parents \cup other.parents,
     backlinks |-> cb.backlinks \cup other.backlinks]

-----------------------------------------------------------------------------
(* The sites compile_all is run on: each of the documents "index", "a" and *)
(* "b" is absent or present with a content and metadata fields, MaxItems   *)
(* items in all.                                                           *)

\* The items a content list of document p is made of.
ItemsOf(p) ==
    { PlainItem("x"),
      EmbedItem("index.md", TRUE, None),
      EmbedItem("a.md", TRUE, None),
      EmbedItem("a", FALSE, Some("A!")),
      EmbedItem("b.md", TRUE, None),
      LocalItem("a", None),
      LocalItem("b", Some("see b")),
      LocalItem(MetadataSlug(p), None) }

\* Plain items carry their position, so that a reordering shows.
RECURSIVE Ticks(_)
Ticks(n) == IF n = 0 THEN "" ELSE "'" \o Ticks(n - 1)

Positioned(items) ==
    [i \in 1..Len(items) |->
        IF items[i].kind = "Plain" THEN PlainItem(items[i].html \o Ticks(i)) ELSE items[i]]

ItemLists(p, n) == { Positioned(s) : s \in [1..n -> ItemsOf(p)] }

\* Contents of weight w: Lazy lists of w items, and the Plain content (weight 1).
ContentsOf(p, w) ==
    { LazyContent(s) : s \in ItemLists(p, w) }
        \cup (IF w = 1 THEN {PlainContent("raw " \o p)} ELSE {})

\* Metadata fields of weight w: one per field, plus the items of a Lazy title.
TitlesOf(p, w) ==
    IF w = 0 THEN {None}
    ELSE { Some(LazyContent(s)) : s \in ItemLists(p, w - 1) \ {<<>>} }
            \cup (IF w = 1 THEN {Some(PlainContent("T-" \o p))} ELSE {})

FlagsOf(w) ==
    CASE w = 0 -> {EmptyMap}
      [] w = 1 -> {"backlinks" :> PlainContent("false"), "taxon" :> PlainContent("reference")}
      [] w = 2 -> {("backlinks" :> PlainContent("false")) @@ ("taxon" :> PlainContent("reference"))}
      [] OTHER -> {}

MetadataOf(p, w) ==
    UNION { { (KEY_SLUG :> PlainContent(p))
                @@ (IF t = None THEN EmptyMap ELSE ("title" :> t[1]))
                @@ f
              : t \in TitlesOf(p, w - k), f \in FlagsOf(k) }
            : k \in 0..w }

ShallowsOf(p, w) ==
    UNION { { [metadata |-> md, content |-> c]
              : c \in ContentsOf(p, k), md \in MetadataOf(p, w - k) }
            : k \in 0..w }

\* A document of the site: absent, or one of its shallow sections of weight w.
Absent == [absent |-> TRUE]
DocumentsOf(p, w) == ShallowsOf(p, w) \cup (IF w = 0 THEN {Absent} ELSE {})

\* The pending table of the documents that are present, keyed by slug.
Table(docs) == [p \in { q \in DOMAIN docs : docs[q] # Absent } |-> docs[p]]

-----------------------------------------------------------------------------

\* A lookup where the removal should be: the key stays.
RemoveNothing(map, key) == map

\* HashMap::remove and HashMap::insert
Remove(map, key) == [k \in DOMAIN map \ {key} |-> map[k]]
Insert(map, key, value) == [k \in DOMAIN map \cup {key} |-> IF k = key THEN value ELSE map[k]]

\* The orders in which a HashMap may hand out the keys S.
Orders(S) ==
    { s \in [1..Cardinality(S) -> S] : \A i, j \in DOMAIN s : i # j => s[i] # s[j] }

Init ==
    /\ \E wi \in 0..MaxItems :
        \E wa \in 0..(MaxItems - wi) :
            \E wb \in 0..(MaxItems - wi - wa) :
                \E i \in DocumentsOf("index", wi), a \in DocumentsOf("a", wa),
                   b \in DocumentsOf("b", wb) :
                    residued = Table([index |-> i, a |-> a, b |-> b])
    /\ compiled = EmptyMap
    /\ metadata = EmptyMap
    /\ callback = NewCallback
    /\ stack = <<>>
    /\ pc = "start"
    /\ sweep = <<>>
    /\ diag = <<>>
    /\ ret = [calls |-> 0, slug |-> "", kind |-> "", section |-> None]
    /\ entered = <<>>
    /\ initial = residued
    /\ first = EmptyMap

-----------------------------------------------------------------------------
(* fetch_section and the activations of compile_shallow.                   *)

\* One activation of compile_shallow: its arguments and locals.
NewFrame(shallow) ==
    [shallow |-> shallow, slug |-> SlugOf(shallow), phase |-> "content", idx |-> 1,
     children |-> <<>>, references |-> {}, callback |-> NewCallback,
     keys |-> {}, fields |-> EmptyMap, key |-> ""]

Top == stack[Len(stack)]
SetTop(stk, f) == [stk EXCEPT ![Len(stk)] = f]
Pop(stk) == SubSeq(stk, 1, Len(stk) - 1)

\* The branch fetch_section(slug) takes.
FetchKind(slug) ==
    IF slug \in DOMAIN compiled THEN "compiled"
    ELSE IF slug \in DOMAIN residued THEN "pending"
    ELSE "none"

\* A fetch that hands out a re-derived, empty section instead of the stored one.
FetchHitEmpty(slug) == NewSection(compiled[slug].metadata, <<>>, {})

\* fetch_section, compiled branch: the stored section, as it is.
FetchHit(slug) == compiled[slug]

\* What fetch_section(slug) returns without compiling: the stored section or None.
Returned(slug, section) ==
    [calls |-> ret.calls + 1, slug |-> slug,
     kind |-> IF section = None THEN "none" ELSE "compiled", section |-> section]

\* A fetch that enters compile_shallow and leaves the slug pending.
DescendKeeping(slug, stk) ==
    /\ residued' = residued
    /\ stack' = Append(stk, NewFrame(residued[slug]))
    /\ entered' = Append(entered, SlugOf(residued[slug]))
    /\ ret' = [calls |-> ret.calls + 1, slug |-> slug, kind |-> "pending", section |-> None]

\* fetch_section, pending branch: remove the slug, then enter compile_shallow.
Descend(slug, stk) ==
    /\ residued' = Remove(residued, slug)
    /\ stack' = Append(stk, NewFrame(residued[slug]))
    /\ entered' = Append(entered, SlugOf(residued[slug]))
    /\ ret' = [calls |-> ret.calls + 1, slug |-> slug, kind |-> "pending", section |-> None]

\* get_metadata, is_enable_backlinks, is_reference on the snapshot
get_metadata(slug) == IF slug \in DOMAIN metadata THEN Some(metadata[slug]) ELSE None

is_enable_backlinks(slug) ==
    IF slug \in DOMAIN metadata THEN md_is_enable_backlinks(metadata[slug]) ELSE TRUE

\* A classifier that takes a slug the snapshot does not know for a reference.
is_reference_or_unknown(slug) ==
    IF slug \in DOMAIN metadata
    THEN \/ is_asref(metadata[slug])
         \/ TaxonIsReference(IF data_taxon(metadata[slug]) = None THEN ""
                             ELSE data_taxon(metadata[slug])[1])
    ELSE TRUE

is_reference(slug) ==
    IF slug \in DOMAIN metadata
    THEN \/ is_asref(metadata[slug])
         \/ TaxonIsReference(IF data_taxon(metadata[slug]) = None THEN ""
                             ELSE data_taxon(metadata[slug])[1])
    ELSE FALSE

\* metadata_to_section(content, current_slug)
metadata_to_section(content, current_slug) ==
    [metadata |-> (KEY_SLUG :> PlainContent(MetadataSlug(current_slug))),
     content |-> content]

\* The clone an embed site pushes: the target with this embed's option and title.
CloneFor(refered, item) ==
    LET child_section == [refered EXCEPT !.option = item.option]
    IN  IF item.title # None
        THEN [child_section EXCEPT !.metadata = Update(@, "title", item.title[1])]
        ELSE child_section

\* An embed that propagates the target's references whatever its option says.
EmbedFoundPropagating(f, item, child_slug, refered) ==
    [f EXCEPT !.references = @ \cup refered.references,
              !.callback = insert_parent(@, child_slug, f.slug),
              !.children = Append(@, EmbedPiece(CloneFor(refered, item))),
              !.idx = @ + 1]

\* An Embed item whose target was found: the frame after the item.
EmbedFound(f, item, child_slug, refered) ==
    [f EXCEPT !.references = IF item.option.details_open THEN @ \cup refered.references ELSE @,
              !.callback = insert_parent(@, child_slug, f.slug),
              !.children = Append(@, EmbedPiece(CloneFor(refered, item))),
              !.idx = @ + 1]

\* The suppression read the other way round: the target is the node's pseudo-slug.
RecordsBacklinkToOwnMetadata(slug, link_slug) ==
    /\ link_slug # slug
    /\ link_slug # MetadataSlug(slug)
    /\ is_enable_backlinks(link_slug)

\* The suppression without the pseudo-slug test: only the node itself is spared.
RecordsBacklinkFromOwnMetadata(slug, link_slug) ==
    /\ link_slug # slug
    /\ is_enable_backlinks(link_slug)

\* Whether a Local link of node slug to link_slug records a backlink.
RecordsBacklink(slug, link_slug) ==
    /\ link_slug # slug
    /\ MetadataSlug(link_slug) # slug
    /\ is_enable_backlinks(link_slug)

\* A Local item whose anchor is put in front of the pieces collected so far.
LocalDoneInFront(f, item) ==
    LET link_slug == item.slug
        md == get_metadata(link_slug)
        article_title == IF md = None \/ page_title(md[1]) = None THEN ""
                         ELSE page_title(md[1])[1]
        text == IF item.text = None THEN article_title ELSE item.text[1]
        html == html_link(full_html_url(link_slug),
                          article_title \o " [" \o link_slug \o "]",
                          text, LocalLinkClass)
    IN  [f EXCEPT !.references = IF is_reference(link_slug) THEN @ \cup {link_slug} ELSE @,
                  !.callback = IF RecordsBacklink(f.slug, link_slug)
                               THEN insert_backlinks(@, link_slug, {f.slug})
                               ELSE @,
                  !.children = <<PlainPiece(html)>> \o @,
                  !.idx = @ + 1]

\* A Local item: the frame after the item.
LocalDone(f, item) ==
    LET link_slug == item.slug
        md == get_metadata(link_slug)
        article_title == IF md = None \/ page_title(md[1]) = None THEN ""
                         ELSE page_title(md[1])[1]
        text == IF item.text = None THEN article_title ELSE item.text[1]
        html == html_link(full_html_url(link_slug),
                          article_title \o " [" \o link_slug \o "]",
                          text, LocalLinkClass)
    IN  [f EXCEPT !.references = IF is_reference(link_slug) THEN @ \cup {link_slug} ELSE @,
                  !.callback = IF RecordsBacklink(f.slug, link_slug)
                               THEN insert_backlinks(@, link_slug, {f.slug})
                               ELSE @,
                  !.children = Append(@, PlainPiece(html)),
                  !.idx = @ + 1]

\* The start of the metadata pass: the identity field, and the keys to compile.
ToMetadata(f) ==
    [f EXCEPT !.phase = "meta",
              !.fields = Update(EmptyMap, KEY_SLUG, f.slug),
              !.keys = DOMAIN f.shallow.metadata \ {KEY_SLUG}]

\* The section compile_shallow builds at its end.
Built(f) == NewSection(f.fields, f.children, f.references)

AtItem(kind) ==
    /\ stack # <<>>
    /\ Top.phase = "content"
    /\ Top.shallow.content.kind = "Lazy"
    /\ Top.idx <= Len(Top.shallow.content.items)
    /\ Top.shallow.content.items[Top.idx].kind = kind

Item == Top.shallow.content.items[Top.idx]

-----------------------------------------------------------------------------
(* compile_all.                                                            *)

\* compile_all up to compile("index"): the snapshot, then the root.
compile_all_root ==
    /\ pc = "start"
    /\ metadata' = [s \in DOMAIN residued |-> compute_textual_attrs(residued[s].metadata)]
    /\ CASE FetchKind("index") = "compiled" ->
                /\ ret' = Returned("index", Some(FetchHit("index")))
                /\ pc' = "collect"
                /\ UNCHANGED <<residued, stack, entered>>
         [] FetchKind("index") = "pending" ->
                /\ Descend("index", stack)
                /\ pc' = "root"
         [] OTHER ->
                /\ ret' = Returned("index", None)
                /\ pc' = "panic"
                /\ UNCHANGED <<residued, stack, entered>>
    /\ UNCHANGED <<compiled, callback, sweep, diag, initial, first>>

\* A sweep that visits nothing.
compile_all_collect_nothing ==
    /\ pc = "collect"
    /\ sweep' = <<>>
    /\ pc' = "sweep"
    /\ UNCHANGED <<residued, compiled, metadata, callback, stack, diag, ret, entered, initial, first>>

\* let residued_slugs = self.residued.keys().collect()
compile_all_collect ==
    /\ pc = "collect"
    /\ sweep' \in Orders(DOMAIN residued)
    /\ pc' = "sweep"
    /\ UNCHANGED <<residued, compiled, metadata, callback, stack, diag, ret, entered, initial, first>>

\* One turn of the sweep loop: self.compile(&slug).
compile_all_sweep ==
    /\ pc = "sweep"
    /\ stack = <<>>
    /\ sweep # <<>>
    /\ sweep' = Tail(sweep)
    /\ CASE FetchKind(Head(sweep)) = "compiled" ->
                /\ ret' = Returned(Head(sweep), Some(FetchHit(Head(sweep))))
                /\ UNCHANGED <<residued, stack, entered, pc>>
         [] FetchKind(Head(sweep)) = "pending" ->
                /\ Descend(Head(sweep), stack)
                /\ UNCHANGED pc
         [] OTHER ->
                /\ ret' = Returned(Head(sweep), None)
                /\ pc' = "panic"
                /\ UNCHANGED <<residued, stack, entered>>
    /\ UNCHANGED <<compiled, metadata, callback, diag, initial, first>>

\* The sweep loop ends and compile_all returns.
compile_all_return ==
    /\ pc = "sweep"
    /\ stack = <<>>
    /\ sweep = <<>>
    /\ pc' = "done"
    /\ UNCHANGED <<residued, compiled, metadata, callback, stack, sweep, diag, ret,
                   entered, initial, first>>

-----------------------------------------------------------------------------
(* compile_shallow, one step of the innermost activation at a time.        *)

\* HTMLContent::Plain: the content is the single piece.
content_plain ==
    /\ stack # <<>>
    /\ Top.phase = "content"
    /\ Top.shallow.content.kind = "Plain"
    /\ stack' = SetTop(stack, ToMetadata([Top EXCEPT
                    !.children = Append(@, PlainPiece(Top.shallow.content.html))]))
    /\ UNCHANGED <<residued, compiled, metadata, callback, pc, sweep, diag, ret,
                   entered, initial, first>>

\* LazyContent::Plain
item_plain ==
    /\ AtItem("Plain")
    /\ stack' = SetTop(stack, [Top EXCEPT !.children = Append(@, PlainPiece(Item.html)),
                                          !.idx = @ + 1])
    /\ UNCHANGED <<residued, compiled, metadata, callback, pc, sweep, diag, ret,
                   entered, initial, first>>

\* LazyContent::Embed whose target is already compiled.
embed_compiled ==
    /\ AtItem("Embed")
    /\ FetchKind(to_slug(Item.url)) = "compiled"
    /\ ret' = Returned(to_slug(Item.url), Some(FetchHit(to_slug(Item.url))))
    /\ stack' = SetTop(stack, EmbedFound(Top, Item, to_slug(Item.url),
                                         FetchHit(to_slug(Item.url))))
    /\ UNCHANGED <<residued, compiled, metadata, callback, pc, sweep, diag, entered, initial, first>>

\* LazyContent::Embed whose target is pending: fetch_section compiles it.
embed_pending ==
    /\ AtItem("Embed")
    /\ FetchKind(to_slug(Item.url)) = "pending"
    /\ Descend(to_slug(Item.url), stack)
    /\ UNCHANGED <<compiled, metadata, callback, pc, sweep, diag, initial, first>>

\* A missing embed skipped without a word.
embed_missing_silent ==
    /\ AtItem("Embed")
    /\ FetchKind(to_slug(Item.url)) = "none"
    /\ ret' = Returned(to_slug(Item.url), None)
    /\ stack' = SetTop(stack, [Top EXCEPT !.idx = @ + 1])
    /\ UNCHANGED <<residued, compiled, metadata, callback, pc, sweep, diag, entered, initial, first>>

\* A missing embed that ends the item loop instead of skipping one item.
embed_missing_stopping ==
    /\ AtItem("Embed")
    /\ FetchKind(to_slug(Item.url)) = "none"
    /\ ret' = Returned(to_slug(Item.url), None)
    /\ diag' = Append(diag, <<Top.slug, to_slug(Item.url)>>)
    /\ stack' = SetTop(stack, [Top EXCEPT !.idx = Len(Top.shallow.content.items) + 1])
    /\ UNCHANGED <<residued, compiled, metadata, callback, pc, sweep, entered, initial, first>>

\* LazyContent::Embed whose target is not found: eprintln! and continue.
embed_missing ==
    /\ AtItem("Embed")
    /\ FetchKind(to_slug(Item.url)) = "none"
    /\ ret' = Returned(to_slug(Item.url), None)
    /\ diag' = Append(diag, <<Top.slug, to_slug(Item.url)>>)
    /\ stack' = SetTop(stack, [Top EXCEPT !.idx = @ + 1])
    /\ UNCHANGED <<residued, compiled, metadata, callback, pc, sweep, entered, initial, first>>

\* A Local item whose edges go to the global accumulator at once.
item_local_unbatched ==
    /\ AtItem("Local")
    /\ stack' = SetTop(stack, LocalDone(Top, Item))
    /\ callback' = merge(callback, LocalDone(Top, Item).callback)
    /\ UNCHANGED <<residued, compiled, metadata, pc, sweep, diag, ret,
                   entered, initial, first>>

\* LazyContent::Local
item_local ==
    /\ AtItem("Local")
    /\ stack' = SetTop(stack, LocalDone(Top, Item))
    /\ UNCHANGED <<residued, compiled, metadata, callback, pc, sweep, diag, ret,
                   entered, initial, first>>

\* The end of the item loop: self.callback.merge(callback).
merge_callback ==
    /\ stack # <<>>
    /\ Top.phase = "content"
    /\ Top.shallow.content.kind = "Lazy"
    /\ Top.idx > Len(Top.shallow.content.items)
    /\ callback' = merge(callback, Top.callback)
    /\ stack' = SetTop(stack, ToMetadata(Top))
    /\ UNCHANGED <<residued, compiled, metadata, pc, sweep, diag, ret, entered, initial, first>>

\* One metadata field: compile_shallow(metadata_to_section(value, &slug)).
metadata_field ==
    /\ stack # <<>>
    /\ Top.phase = "meta"
    /\ \E key \in Top.keys :
        LET spanned == metadata_to_section(Top.shallow.metadata[key], Top.slug)
        IN  /\ stack' = Append(SetTop(stack, [Top EXCEPT !.key = key]), NewFrame(spanned))
            /\ entered' = Append(entered, SlugOf(spanned))
    /\ UNCHANGED <<residued, compiled, metadata, callback, pc, sweep, diag, ret, initial, first>>

\* The end of compile_shallow: leave residued, enter compiled.
Store(f) ==
    /\ residued' = Remove(residued, f.slug)
    /\ compiled' = Insert(compiled, f.slug, Built(f))
    /\ first' = IF f.slug \in DOMAIN first THEN first ELSE Insert(first, f.slug, Built(f))

Finished ==
    /\ stack # <<>>
    /\ Top.phase = "meta"
    /\ Top.keys = {}

\* compile_shallow returns to compile_all (through fetch_section and compile).
return_to_compile_all ==
    /\ Finished
    /\ Len(stack) = 1
    /\ Store(Top)
    /\ stack' = <<>>
    /\ ret' = [ret EXCEPT !.section = Some(Built(Top))]
    /\ pc' = IF pc = "root" THEN "collect" ELSE pc
    /\ UNCHANGED <<metadata, callback, sweep, diag, entered, initial>>

\* compile_shallow returns to the Embed item that fetched it.
return_to_embed ==
    /\ Finished
    /\ Len(stack) > 1
    /\ stack[Len(stack) - 1].phase = "content"
    /\ Store(Top)
    /\ ret' = [ret EXCEPT !.section = Some(Built(Top))]
    /\ LET caller == stack[Len(stack) - 1]
           item == caller.shallow.content.items[caller.idx]
       IN  stack' = SetTop(Pop(stack), EmbedFound(caller, item, to_slug(item.url), Built(Top)))
    /\ UNCHANGED <<metadata, callback, pc, sweep, diag, entered, initial>>

\* A metadata pass that stores the rendering under the identity field.
return_to_metadata_identity ==
    /\ Finished
    /\ Len(stack) > 1
    /\ stack[Len(stack) - 1].phase = "meta"
    /\ Store(Top)
    /\ LET caller == stack[Len(stack) - 1]
       IN  stack' = SetTop(Pop(stack),
                           [caller EXCEPT !.fields = Update(@, KEY_SLUG, Spanned(Built(Top))),
                                          !.keys = @ \ {caller.key},
                                          !.key = ""])
    /\ UNCHANGED <<metadata, callback, pc, sweep, diag, ret, entered, initial>>

\* compile_shallow returns to the metadata pass: the field holds its rendering.
return_to_metadata ==
    /\ Finished
    /\ Len(stack) > 1
    /\ stack[Len(stack) - 1].phase = "meta"
    /\ Store(Top)
    /\ LET caller == stack[Len(stack) - 1]
       IN  stack' = SetTop(Pop(stack),
                           [caller EXCEPT !.fields = Update(@, caller.key, Spanned(Built(Top))),
                                          !.keys = @ \ {caller.key},
                                          !.key = ""])
    /\ UNCHANGED <<metadata, callback, pc, sweep, diag, ret, entered, initial>>

Next ==
    \/ compile_all_root
    \/ compile_all_collect
    \/ compile_all_sweep
    \/ compile_all_return
    \/ content_plain
    \/ item_plain
    \/ embed_compiled
    \/ embed_pending
    \/ embed_missing
    \/ item_local
    \/ merge_callback
    \/ metadata_field
    \/ return_to_compile_all
    \/ return_to_embed
    \/ return_to_metadata

Spec == Init /\ [][Next]_vars

\* The run is sequential: whatever step is enabled is taken.
FairSpec == Spec /\ WF_vars(Next)

-----------------------------------------------------------------------------
(* Vocabulary of the properties.                                           *)

Range(seq) == { seq[i] : i \in DOMAIN seq }
Count(seq, x) == Cardinality({ i \in DOMAIN seq : seq[i] = x })

ItemsIn(content) == IF content.kind = "Lazy" THEN content.items ELSE <<>>
FieldKeys(shallow) == DOMAIN shallow.metadata \ {KEY_SLUG}

\* The slugs a document embeds, from its content and from its metadata fields.
EmbedTargets(shallow) ==
    { to_slug(it.url) : it \in { x \in Range(ItemsIn(shallow.content)) : x.kind = "Embed" } }
        \cup UNION { { to_slug(it.url)
                       : it \in { x \in Range(ItemsIn(shallow.metadata[k])) : x.kind = "Embed" } }
                     : k \in FieldKeys(shallow) }

\* The slugs reachable from S through chains of embeds of the initial table.
RECURSIVE EmbedReach(_)
EmbedReach(S) ==
    LET more == S \cup UNION { EmbedTargets(initial[p]) : p \in S \cap DOMAIN initial }
    IN  IF more = S THEN S ELSE EmbedReach(more)

\* The places of the Embed pieces for slug t among children.
EmbedPiecesFor(children, t) ==
    { i \in DOMAIN children :
        children[i].kind = "Embed" /\ children[i].section.metadata[KEY_SLUG] = t }

\* The places of the Embed items for slug t in a content.
EmbedItemsFor(content, t) ==
    { i \in DOMAIN ItemsIn(content) :
        ItemsIn(content)[i].kind = "Embed" /\ to_slug(ItemsIn(content)[i].url) = t }

-----------------------------------------------------------------------------
(* The properties.                                                         *)

\* C1 (as claimed): Totality. When compile_all returns on a pending table that
\* contains the root "index", the keys of compiled are exactly the slugs that
\* were pending when it was called: none missing, none added.
C1_Totality ==
    (pc = "done" /\ "index" \in DOMAIN initial) => DOMAIN compiled = DOMAIN initial

\* C2: Orphan sweep. When compile_all returns, the pending table is empty and
\* every slug pending at the start, reachable from "index" through embeds or
\* not, is a key of compiled.
C2_OrphanSweep ==
    pc = "done" => /\ DOMAIN residued = {}
                   /\ DOMAIN initial \subseteq DOMAIN compiled

\* C2 witness: compile_all has returned and a document no chain of embeds
\* reaches from "index" is compiled.
C2_Witness ==
    /\ pc = "done"
    /\ \E s \in DOMAIN initial \ EmbedReach({"index"}) : s \in DOMAIN compiled

\* C3: Single compilation. compile_shallow is entered at most once for each
\* document of the initial table, however many Embed and Local items name it,
\* and every Embed piece for a document, in a compiled section or in an
\* activation still collecting its pieces, is the section stored in compiled
\* under that slug, up to the display option and the title.
CopyOf(piece, section) ==
    /\ piece.children = section.children
    /\ piece.references = section.references
    /\ DOMAIN piece.metadata \ {"title"} = DOMAIN section.metadata \ {"title"}
    /\ \A k \in DOMAIN section.metadata \ {"title"} : piece.metadata[k] = section.metadata[k]

PiecesCanonical(children) ==
    \A i \in DOMAIN children :
        (children[i].kind = "Embed" /\ children[i].section.metadata[KEY_SLUG] \in DOMAIN initial)
            => /\ children[i].section.metadata[KEY_SLUG] \in DOMAIN compiled
               /\ CopyOf(children[i].section,
                         compiled[children[i].section.metadata[KEY_SLUG]])

C3_SingleCompilation ==
    /\ \A s \in DOMAIN initial : Count(entered, s) <= 1
    /\ \A k \in DOMAIN compiled : PiecesCanonical(compiled[k].children)
    /\ \A i \in DOMAIN stack : PiecesCanonical(stack[i].children)

\* C3 witness: the run is over, and a document that was compiled once is
\* embedded at two places or more and is the target of a Local link.
C3_Witness ==
    /\ pc = "done"
    /\ \E t \in DOMAIN initial :
        /\ Count(entered, t) = 1
        /\ \E p, q \in DOMAIN compiled :
            \E i \in EmbedPiecesFor(compiled[p].children, t) :
                \E j \in EmbedPiecesFor(compiled[q].children, t) : p # q \/ i # j
        /\ \E p \in DOMAIN initial :
            \E it \in Range(ItemsIn(initial[p].content)) : it.kind = "Local" /\ it.slug = t

\* C4 (as claimed): Termination. On every finite pending table compile_all
\* makes finitely many calls and returns: a run that has stopped has returned.
C4_Returns == pc = "done" \/ ENABLED Next

\* C5: Cycle safety. When A embeds B once and B embeds A once, and nothing else
\* embeds one from the other, both end up compiled; the one compile_shallow
\* entered first holds an Embed piece for the other, the one entered second
\* holds none for the first, and one diagnostic, the second's, is written.
MutualCycle(a, b) ==
    /\ a # b
    /\ a \in DOMAIN initial /\ b \in DOMAIN initial
    /\ Cardinality(EmbedItemsFor(initial[a].content, b)) = 1
    /\ Cardinality(EmbedItemsFor(initial[b].content, a)) = 1
    /\ \A k \in FieldKeys(initial[a]) : EmbedItemsFor(initial[a].metadata[k], b) = {}
    /\ \A k \in FieldKeys(initial[b]) : EmbedItemsFor(initial[b].metadata[k], a) = {}

EnteredBefore(a, b) ==
    \E i, j \in DOMAIN entered : i < j /\ entered[i] = a /\ entered[j] = b

C5_CycleSafety ==
    pc = "done" =>
        \A a, b \in DOMAIN initial :
            (MutualCycle(a, b) /\ EnteredBefore(a, b)) =>
                /\ a \in DOMAIN compiled /\ b \in DOMAIN compiled
                /\ Cardinality(EmbedPiecesFor(compiled[a].children, b)) = 1
                /\ EmbedPiecesFor(compiled[b].children, a) = {}
                /\ Count(diag, <<b, a>>) = 1
                /\ Count(diag, <<a, b>>) = 0

\* C5 witness: compile_all has returned on a site with such a pair.
C5_Witness ==
    /\ pc = "done"
    /\ \E a, b \in DOMAIN initial : MutualCycle(a, b) /\ EnteredBefore(a, b)

\* C6 (as claimed): No fatal condition. Whatever the initial pending table,
\* with or without the root "index", no panic escapes compile_all.
C6_NoPanic == pc # "panic"

\* C7: Exclusivity and monotonicity. No slug is a key of both residued and
\* compiled, and a key of compiled stays one and never is a key of residued again.
\* (compiled is empty at the start, so stating the first half of the state
\* every step leads to states it for every reachable state.)
C7_Exclusive ==
    [][/\ DOMAIN residued' \cap DOMAIN compiled' = {}
       /\ \A s \in DOMAIN compiled : s \in DOMAIN compiled' /\ s \notin DOMAIN residued']_vars

\* C7 witness: some document has moved to compiled while others are pending.
C7_Witness ==
    /\ DOMAIN residued # {}
    /\ DOMAIN initial \cap DOMAIN compiled # {}

\* C8 (as claimed): Canonical immutability. The value stored in compiled
\* under a key is never changed by a later step.
C8_Immutable ==
    [][\A k \in DOMAIN compiled : k \in DOMAIN compiled' /\ compiled'[k] = compiled[k]]_vars

\* C9: Idempotence of fetch. A fetch_section of a slug that is a key of
\* compiled returns the section first stored under it and leaves residued,
\* compiled, the snapshot and the accumulator as they are; nothing is compiled
\* and no diagnostic is written.
C9_FetchIdempotent ==
    [][(ret'.calls = ret.calls + 1 /\ ret'.slug \in DOMAIN compiled)
        => /\ ret'.section = Some(first[ret'.slug])
           /\ UNCHANGED <<residued, compiled, metadata, callback, diag, entered>>]_vars

\* C9 witness: the last fetch_section found its slug compiled, and the section
\* it returned has content.
C9_Witness ==
    /\ ret.kind = "compiled"
    /\ ret.section # None
    /\ ret.section[1].children # <<>>

\* C10: Backlink suppression.
\* The nodes compile_shallow runs on for document p: p, and each of its fields.
NodesOf(p) ==
    { [slug |-> p, content |-> initial[p].content] }
        \cup { [slug |-> MetadataSlug(p), content |-> initial[p].metadata[k]]
               : k \in FieldKeys(initial[p]) }

LinksOf(content) ==
    { it.slug : it \in { x \in Range(ItemsIn(content)) : x.kind = "Local" } }

BacklinksDisabled(q) ==
    /\ q \in DOMAIN initial
    /\ "backlinks" \in DOMAIN initial[q].metadata
    /\ initial[q].metadata["backlinks"] = PlainContent("false")

-----------------------------------------------------------------------------
(* Reference sets.                                                         *)

\* Whether the site marks document r as a reference, read off the initial table.
MarkedReference(r) ==
    /\ r \in DOMAIN initial
    /\ "taxon" \in DOMAIN initial[r].metadata
    /\ initial[r].metadata["taxon"] = PlainContent("reference")

\* The reference documents the Local items of a content link to.
LinkedReferences(content) == { r \in LinksOf(content) : MarkedReference(r) }

\* The places of the Embed pieces of children, by display option.
PiecesWith(children, open) ==
    { i \in DOMAIN children :
        children[i].kind = "Embed" /\ children[i].section.option.details_open = open }

PieceSlug(piece) == piece.section.metadata[KEY_SLUG]

\* C11: Reference propagation. For every compiled document P: the reference
\* set of each target C that P embeds with details_open = true is a subset of
\* P's reference set, and P's reference set is exactly the reference documents
\* its own Local items link to together with the reference sets of the targets
\* embedded with details_open = true: an embed with details_open = false adds
\* nothing.
C11_ReferencePropagation ==
    \A p \in DOMAIN initial \cap DOMAIN compiled :
        LET ch == compiled[p].children
        IN  /\ \A i \in PiecesWith(ch, TRUE) :
                /\ PieceSlug(ch[i]) \in DOMAIN compiled
                /\ compiled[PieceSlug(ch[i])].references \subseteq compiled[p].references
            /\ compiled[p].references =
                    LinkedReferences(initial[p].content)
                        \cup UNION { compiled[PieceSlug(ch[i])].references
                                     : i \in PiecesWith(ch, TRUE) }

\* C11 witness: a compiled document embeds, with details_open = true, a target
\* whose reference set is not empty, and holds the target's references.
C11_Witness ==
    \E p \in DOMAIN initial \cap DOMAIN compiled :
        \E i \in PiecesWith(compiled[p].children, TRUE) :
            /\ compiled[p].children[i].section.references # {}
            /\ compiled[p].children[i].section.references \subseteq compiled[p].references

\* The other case of C11: a compiled document embeds, with details_open =
\* false, a target whose reference set is not empty, and holds none of them.
C11_ClosedCase ==
    \E p \in DOMAIN initial \cap DOMAIN compiled :
        \E i \in PiecesWith(compiled[p].children, FALSE) :
            /\ compiled[p].children[i].section.references # {}
            /\ compiled[p].children[i].section.references \cap compiled[p].references = {}

-----------------------------------------------------------------------------
(* The order of the pieces.                                                *)

\* The title the site gives document q: its Plain title field, or nothing.
TitleOf(q) ==
    IF q \in DOMAIN initial /\ page_title(initial[q].metadata) # None
    THEN page_title(initial[q].metadata)[1]
    ELSE ""

\* renderedLink: the anchor of a Local item.
RenderedLink(item) ==
    html_link(full_html_url(item.slug), TitleOf(item.slug) \o " [" \o item.slug \o "]",
              IF item.text = None THEN TitleOf(item.slug) ELSE item.text[1],
              LocalLinkClass)

\* Whether an Embed item of node n was not found: a diagnostic names the pair.
NotFound(n, item) == <<n, to_slug(item.url)>> \in Range(diag)

\* Whether children, from place j on, is items, from place i on, mapped item
\* by item: a Plain item to the same Plain piece, a Local item to one Plain
\* piece holding its anchor, a found Embed item to one Embed piece for its
\* target with the item's option, a not-found Embed item to nothing.
RECURSIVE MappedFrom(_, _, _, _, _)
MappedFrom(n, items, i, children, j) ==
    IF i > Len(items) THEN j > Len(children)
    ELSE IF items[i].kind = "Embed" /\ NotFound(n, items[i])
         THEN MappedFrom(n, items, i + 1, children, j)
         ELSE /\ j <= Len(children)
              /\ CASE items[i].kind = "Plain" -> children[j] = PlainPiece(items[i].html)
                   [] items[i].kind = "Local" -> children[j] = PlainPiece(RenderedLink(items[i]))
                   [] OTHER -> /\ children[j].kind = "Embed"
                               /\ PieceSlug(children[j]) = to_slug(items[i].url)
                               /\ children[j].section.option = items[i].option
              /\ MappedFrom(n, items, i + 1, children, j + 1)

\* The number of Embed items of a list.
Embeds(items) == Cardinality({ i \in DOMAIN items : items[i].kind = "Embed" })

\* C12: Order preservation. The pieces of every compiled document with a Lazy
\* content are its source items mapped item by item in source order, the
\* not-found Embed items left out and nothing else; one diagnostic was written
\* for each item left out.
C12_OrderPreserved ==
    \A p \in DOMAIN initial \cap DOMAIN compiled :
        initial[p].content.kind = "Lazy" =>
            /\ MappedFrom(p, initial[p].content.items, 1, compiled[p].children, 1)
            /\ Len(initial[p].content.items) - Len(compiled[p].children)
                    = Cardinality({ i \in DOMAIN diag : diag[i][1] = p })

\* C12 witness: a compiled document of three items, a Local item between two
\* others, of which a not-found Embed item was left out and a Plain item kept.
C12_Witness ==
    \E p \in DOMAIN initial \cap DOMAIN compiled :
        /\ initial[p].content.kind = "Lazy"
        /\ Len(initial[p].content.items) = 3
        /\ initial[p].content.items[2].kind = "Local"
        /\ \E i \in {1, 3} : /\ initial[p].content.items[i].kind = "Embed"
                              /\ NotFound(p, initial[p].content.items[i])
        /\ \E i \in {1, 3} : initial[p].content.items[i].kind = "Plain"
        /\ Len(compiled[p].children) = 2

-----------------------------------------------------------------------------
(* Local links and the tables.                                             *)

\* C13 (as claimed): Link cascade. A Local link, in the content or in a
\* metadata field, whose target Q is pending has Q compiled as part of
\* compiling the linking document: once the linking document is in compiled,
\* no target of its links is still pending.
C13_LinkCascade ==
    \A p \in DOMAIN initial \cap DOMAIN compiled :
        \A n \in NodesOf(p) :
            \A q \in LinksOf(n.content) : q \notin DOMAIN residued

-----------------------------------------------------------------------------
(* Missing targets.                                                        *)

\* The lines of diag that name node n as the referrer.
DiagnosticsOf(d, n) == { i \in DOMAIN d : d[i][1] = n }

\* C14: Missing embed degradation. A step in which fetch_section returns None
\* to an Embed item of a node adds no piece, no parent edge and no reference,
\* writes one diagnostic naming the node and the target, and moves on to the
\* next item, the tables untouched. When compile_all returns, every document
\* a diagnostic names as referrer is compiled, with one diagnostic per Embed
\* item for that target, no piece and no parent edge for the target, a piece
\* for every other item and all its metadata fields.
C14_MissingEmbed ==
    [][/\ (stack # <<>> /\ ret'.calls = ret.calls + 1 /\ ret'.kind = "none")
            => /\ AtItem("Embed")
               /\ ret'.slug = to_slug(Item.url)
               /\ stack' = SetTop(stack, [Top EXCEPT !.idx = @ + 1])
               /\ diag' = Append(diag, <<Top.slug, to_slug(Item.url)>>)
               /\ UNCHANGED <<residued, compiled, callback>>
       /\ pc' = "done" =>
            \A p \in DOMAIN initial :
                \A i \in DiagnosticsOf(diag', p) :
                    /\ p \in DOMAIN compiled'
                    /\ Count(diag', diag'[i])
                            = Cardinality(EmbedItemsFor(initial[p].content, diag'[i][2]))
                    /\ EmbedPiecesFor(compiled'[p].children, diag'[i][2]) = {}
                    /\ <<diag'[i][2], p>> \notin callback'.parents
                    /\ Len(compiled'[p].children)
                            = Len(initial[p].content.items)
                                - Cardinality(DiagnosticsOf(diag', p))
                    /\ DOMAIN compiled'[p].metadata = DOMAIN initial[p].metadata]_vars

\* C14 witness: compile_all has returned; the first item of a document was an
\* Embed item that was not found, and the document has later items, which
\* gave pieces, and a metadata field, which was compiled.
C14_Witness ==
    /\ pc = "done"
    /\ \E p \in DOMAIN initial \cap DOMAIN compiled :
        /\ initial[p].content.kind = "Lazy"
        /\ Len(initial[p].content.items) >= 2
        /\ initial[p].content.items[1].kind = "Embed"
        /\ NotFound(p, initial[p].content.items[1])
        /\ compiled[p].children # <<>>
        /\ FieldKeys(initial[p]) # {}
        /\ FieldKeys(initial[p]) \subseteq DOMAIN compiled[p].metadata

\* The anchor of a Local item rendered with an empty title.
EmptyTitleLink(item) ==
    html_link(full_html_url(item.slug), "" \o " [" \o item.slug \o "]",
              IF item.text = None THEN "" ELSE item.text[1], LocalLinkClass)

\* C15 (as claimed): Missing link degradation. A step that processes a Local
\* item whose target is neither compiled nor pending (unknown, or being
\* compiled higher on the call stack) adds one Plain piece, the anchor with an
\* empty title, and writes a diagnostic naming the node and the target.
C15_MissingLink ==
    [][(AtItem("Local") /\ Item.slug \notin DOMAIN compiled \cup DOMAIN residued
            /\ stack' # stack)
        => /\ Len(stack') = Len(stack)
           /\ stack'[Len(stack)].children
                = Append(Top.children, PlainPiece(EmptyTitleLink(Item)))
           /\ diag' = Append(diag, <<Top.slug, Item.slug>>)]_vars

-----------------------------------------------------------------------------
(* The nodes being compiled.                                               *)

\* C16 (as claimed): Mid-compilation slugs are invisible. The slug of every
\* activation of compile_shallow on the call stack, a document slug or a
\* "<slug>:metadata" pseudo-slug, is a key of neither residued nor compiled,
\* so that fetch_section would not find it.
C16_Invisible ==
    \A i \in DOMAIN stack :
        /\ stack[i].slug \notin DOMAIN residued
        /\ stack[i].slug \notin DOMAIN compiled
        /\ FetchKind(stack[i].slug) = "none"

-----------------------------------------------------------------------------
(* Pseudo-slugs among the backlinks.                                       *)

\* The slugs of the documents a site may hold, and their pseudo-slugs.
DocumentSlugs == {"index", "a", "b"}
PseudoSlugs == { MetadataSlug(p) : p \in DocumentSlugs }

\* The targets the metadata fields of document p link to.
FieldLinks(p) ==
    IF p \in DOMAIN initial
    THEN UNION { LinksOf(initial[p].metadata[k]) : k \in FieldKeys(initial[p]) }
    ELSE {}

-----------------------------------------------------------------------------
(* Batching and order within one node.                                     *)

\* The edges of accumulator cb whose parent, or linking source, is node n.
EdgesFrom(cb, n) ==
    { e \in cb.parents : e[2] = n } \cup { e \in cb.backlinks : e[2] = n }

\* Whether all items of activation f have been processed.
ItemsDone(f) ==
    IF f.shallow.content.kind = "Lazy"
    THEN f.idx > Len(f.shallow.content.items)
    ELSE f.children = <<PlainPiece(f.shallow.content.html)>>

\* C18: Per-node batching and ordering. In every step, for every activation
\* of compile_shallow that stays on the call stack: unless the step is the
\* one that ends its item loop, the global accumulator gains no edge whose
\* parent or linking source is its node; the step that ends its item loop
\* comes after its last item, is a step of that activation and puts all its
\* local edges into the global accumulator at once. A metadata field is
\* entered only from an activation whose items are all processed and whose
\* slug is not yet a key of compiled, and an activation returns, its section
\* inserted, only with every metadata field compiled.
C18_Batching ==
    [][/\ \A i \in DOMAIN stack :
            i <= Len(stack') =>
                IF stack[i].phase = "content" /\ stack'[i].phase = "meta"
                THEN /\ i = Len(stack) /\ Len(stack') = Len(stack)
                     /\ ItemsDone(stack'[i])
                     /\ stack[i].shallow.content.kind = "Lazy" => ItemsDone(stack[i])
                     /\ callback'.parents = callback.parents \cup stack[i].callback.parents
                     /\ callback'.backlinks
                            = callback.backlinks \cup stack[i].callback.backlinks
                ELSE EdgesFrom(callback', stack[i].slug) = EdgesFrom(callback, stack[i].slug)
       /\ (Len(stack') = Len(stack) + 1 /\ stack # <<>> /\ ret' = ret)
            => /\ Top.phase = "meta"
               /\ ItemsDone(Top)
               /\ stack'[Len(stack')].slug = MetadataSlug(Top.slug)
               /\ Top.slug \notin DOMAIN compiled
       /\ Len(stack') < Len(stack)
            => /\ Top.phase = "meta"
               /\ ItemsDone(Top)
               /\ Top.slug \in DOMAIN compiled'
               /\ DOMAIN compiled'[Top.slug].metadata = DOMAIN Top.shallow.metadata]_vars

\* C18 witness: an activation with items still to process holds an edge in
\* its local accumulator that the global one lacks, while the global
\* accumulator already holds the edges of a node compiled inside it.
C18_Witness ==
    /\ stack # <<>>
    /\ Top.phase = "content"
    /\ ~ItemsDone(Top)
    /\ EdgesFrom(Top.callback, Top.slug) # {}
    /\ EdgesFrom(callback, Top.slug) = {}
    /\ callback.backlinks # {}

-----------------------------------------------------------------------------
(* The compiled metadata.                                                  *)

\* The inline rendering of the items of node n from place i on: a Plain item
\* as it is, a Local item as its anchor, a found Embed item as its section.
RECURSIVE RenderedFrom(_, _, _)
RenderedFrom(n, items, i) ==
    IF i > Len(items) THEN ""
    ELSE (CASE items[i].kind = "Plain" -> items[i].html
            [] items[i].kind = "Local" -> RenderedLink(items[i])
            [] OTHER -> IF NotFound(n, items[i]) THEN ""
                        ELSE "<section " \o to_slug(items[i].url) \o ">")
         \o RenderedFrom(n, items, i + 1)

\* The rendering of the raw content of a metadata field of document p.
RenderedField(p, content) ==
    "<span>"
        \o (IF content.kind = "Plain" THEN content.html
            ELSE RenderedFrom(MetadataSlug(p), content.items, 1))
        \o "</span>"

\* C19: Metadata keying. The compiled metadata of every compiled document has
\* the keys of its shallow metadata together with the identity field; the
\* identity field holds the document's slug, and every other field holds the
\* rendering of the raw content of that same field.
C19_MetadataKeying ==
    \A p \in DOMAIN initial \cap DOMAIN compiled :
        /\ DOMAIN compiled[p].metadata = DOMAIN initial[p].metadata \cup {KEY_SLUG}
        /\ compiled[p].metadata[KEY_SLUG] = p
        /\ \A k \in FieldKeys(initial[p]) :
                compiled[p].metadata[k] = RenderedField(p, initial[p].metadata[k])

\* C19 witness: a compiled document has two fields besides the identity
\* field, with different renderings, one of them holding a Local link.
C19_Witness ==
    \E p \in DOMAIN initial \cap DOMAIN compiled :
        \E k, l \in FieldKeys(initial[p]) :
            /\ compiled[p].metadata[k] # compiled[p].metadata[l]
            /\ LinksOf(initial[p].metadata[k]) # {}

-----------------------------------------------------------------------------
(* Soundness of the reference sets.                                        *)

\* The targets the Embed items of a content embed with details_open = true.
OpenEmbeds(content) ==
    { to_slug(it.url) : it \in { x \in Range(ItemsIn(content)) :
                                   x.kind = "Embed" /\ x.option.details_open } }

\* The documents reachable from S through chains of such embeds in contents.
RECURSIVE OpenReach(_)
OpenReach(S) ==
    LET more == S \cup UNION { OpenEmbeds(initial[p].content) : p \in S \cap DOMAIN initial }
    IN  IF more = S THEN S ELSE OpenReach(more)

\* The reference documents linked from the content of a document of S.
ReferencesWithin(S) ==
    UNION { LinkedReferences(initial[p].content) : p \in S \cap DOMAIN initial }

\* C20: Reference-set soundness. Every slug in the reference set of a section
\* of compiled, or of an activation still collecting, is a document the site
\* marks as a reference; every slug in the reference set of a compiled
\* document is linked by a Local item of its own content or of the content of
\* a document it reaches through embeds with details_open = true, so the
\* references of its metadata fields are not among them unless the content
\* gives them too.
C20_ReferenceSoundness ==
    /\ \A k \in DOMAIN compiled : \A r \in compiled[k].references : MarkedReference(r)
    /\ \A i \in DOMAIN stack : \A r \in stack[i].references : MarkedReference(r)
    /\ \A p \in DOMAIN initial \cap DOMAIN compiled :
            compiled[p].references \subseteq ReferencesWithin(OpenReach({p}))

\* C20 witness: a metadata field of a compiled document links to a reference
\* document; the section of the field holds the reference and the document's
\* own reference set does not.
C20_Witness ==
    \E p \in DOMAIN initial \cap DOMAIN compiled :
        \E r \in FieldLinks(p) :
            /\ MarkedReference(r)
            /\ MetadataSlug(p) \in DOMAIN compiled
            /\ r \in compiled[MetadataSlug(p)].references
            /\ r \notin compiled[p].references
====
